---- MODULE Spec2Model ----
(***************************************************************************)
(* State-machine model of the zenweather single-page app.                  *)
(*                                                                         *)
(* The repository holds several iterations of the same root component.     *)
(* The model carries them side by side, selected by `variant`:             *)
(*   "AppA"  src/App.tsx lines 11-288      (IP lookup, locate button)      *)
(*   "AppB"  src/App.tsx lines 312-504     (manual search, schema mode)    *)
(*   "P000"  src/unnamed/part_000          (refresh button)                *)
(*   "P001A" src/unnamed/part_001 10-322   (key check, IP lookup, search)  *)
(*   "P001B" src/unnamed/part_001 364-595  (key check, search, quota map)  *)
(*   "P009"  src/unnamed/part_009 157-299  (single-file build, IP lookup)  *)
(*                                                                         *)
(* One action is one handler or one callback continuation; the setState    *)
(* calls of a continuation are committed together (React 18 batching,      *)
(* part_009 line 303 mounts with createRoot).                              *)
(***************************************************************************)
EXTENDS Integers, Sequences, FiniteSets, TLC

VARIABLES
  variant,        \* which iteration of App is running
  apiKey,         \* TRUE iff the build-time API key is present
  hasGeolocation, \* TRUE iff navigator.geolocation exists
  storage,        \* the durable client-local cache entry found at startup
  weather,        \* useState<WeatherData | null>
  isEink,         \* useState<boolean>
  currentTime,    \* useState(new Date()), as minutes since local midnight
  isLoading,      \* useState<boolean>(true)
  isLocating,     \* useState<boolean>(false)
  error,          \* useState<string | null>
  sources,        \* useState<{title, uri}[]>
  manualSearch,   \* useState<string>('')
  showSearch,     \* useState<boolean>(false)
  locates,        \* the handleLocate resolutions started so far
  calls,          \* the fetchWeather calls started so far
  shown,          \* the place in `calls` of the call whose response is shown
  tennis,         \* which iteration of TennisIndex renders the card
  card            \* the verdict card rendered by TennisIndex

vars == <<variant, apiKey, hasGeolocation, storage, weather, isEink, currentTime,
          isLoading, isLocating, error, sources, manualSearch, showSearch,
          locates, calls, shown, tennis, card>>

envVars == <<variant, apiKey, hasGeolocation, storage>>
tennisVars == <<tennis, card>>

----------------------------------------------------------------------------
(* Bounds of the exploration *)

MaxOps == 3      \* user-triggered operations, the mount-time one included
MaxTemp == 37    \* highest temperature fed to the tennis evaluator, in degrees
MaxFrost == 2    \* lowest temperature fed to it, in degrees below zero
MaxWind == 27    \* highest wind speed fed to the tennis evaluator, in km/h
MaxPrecip == 2   \* highest precipitation fed to it, in tenths of a millimetre
Resolution == 2  \* temperature and wind are sampled in steps of 1/Resolution

----------------------------------------------------------------------------
(* Values *)

null == [null |-> TRUE]           \* the null of useState<WeatherData | null>
NoError == "<null>"               \* the null of useState<string | null>
None == <<>>                      \* an argument or field that is undefined
Some(x) == <<x>>
IsSome(o) == Len(o) = 1
Val(o) == o[1]

Variants == {"AppA", "AppB", "P000", "P001A", "P001B", "P009"}
IpVariants == {"AppA", "P001A", "P009"}
SearchVariants == {"AppB", "P001A", "P001B"}
KeyCheckVariants == {"P001A", "P001B"}
LocatingVariants == Variants \ {"P000"}

\* "HH:MM" strings are kept as sequences of characters so that split(':')
\* and Number() can be computed.
T0615 == <<"0", "6", ":", "1", "5">>
T2030 == <<"2", "0", ":", "3", "0">>
T0600 == <<"0", "6", ":", "0", "0">>
T2000 == <<"2", "0", ":", "0", "0">>
T0710 == <<"0", "7", ":", "1", "0">>
T1820 == <<"1", "8", ":", "2", "0">>

\* precipitation is counted in tenths of a millimetre (5.2 mm = 52)
MOCK_WEATHER_current ==
  [temp |-> 22, condition |-> "clear", location |-> "Acquiring Location...",
   windSpeed |-> 8, humidity |-> 45, precipitation |-> 0,
   sunrise |-> T0615, sunset |-> T2030]

MOCK_WEATHER_part_009 ==
  [temp |-> 20, condition |-> "clear", location |-> "Sensing Atmosphere...",
   windSpeed |-> 5, humidity |-> 50, precipitation |-> 0,
   sunrise |-> T0600, sunset |-> T2000]

MOCK_WEATHER(v) == IF v = "P009" THEN MOCK_WEATHER_part_009 ELSE MOCK_WEATHER_current

\* Readings the upstream model may answer with.
UpstreamReadings ==
  { [temp |-> 21, condition |-> "clear", location |-> "Paris, France",
     windSpeed |-> 8, humidity |-> 45, precipitation |-> 0,
     sunrise |-> T0615, sunset |-> T2030],
    [temp |-> 14, condition |-> "rainy", location |-> "London, UK",
     windSpeed |-> 15, humidity |-> 88, precipitation |-> 52,
     sunrise |-> T0710, sunset |-> T1820],
    [temp |-> 3, condition |-> "snowy", location |-> "Oslo, Norway",
     windSpeed |-> 12, humidity |-> 80, precipitation |-> 10,
     sunrise |-> None, sunset |-> None] }

\* groundingMetadata.groundingChunks of a response: undefined, or a list of
\* chunks of which only those with a `web` member are kept.
Groundings ==
  { None,
    Some(<< [web |-> Some([title |-> "AccuWeather", uri |-> "https://accuweather.example"])],
            [web |-> None] >>) }

\* Messages of the errors the AI call may reject with ("" for an error
\* without a message).
ErrMessages == {"Failed to fetch", "429 Too Many Requests", "Quota exceeded", ""}

\* Answers of https://ipapi.co/json/
IpAnswers ==
  { [city |-> Some("Paris"), country_name |-> Some("France")],
    [city |-> None, country_name |-> None] }

Latitudes == {0, 47}
Longitudes == {8}

ClockValues == {720, 1380}        \* 12:00 and 23:00

\* Texts are sequences of chunks, so that template concatenation and trim()
\* can be computed.  What the user may type into the search box:
SearchInputs == {<<>>, <<" ">>, <<" ", "Basel">>}

----------------------------------------------------------------------------
(* Derived render values *)

activeWeather == IF weather = null THEN MOCK_WEATHER(variant) ELSE weather

Digits == {"0", "1", "2", "3", "4", "5", "6", "7", "8", "9"}
DigitVal(c) ==
  CASE c = "0" -> 0 [] c = "1" -> 1 [] c = "2" -> 2 [] c = "3" -> 3 [] c = "4" -> 4
    [] c = "5" -> 5 [] c = "6" -> 6 [] c = "7" -> 7 [] c = "8" -> 8 [] c = "9" -> 9

\* String.prototype.split(':'): the pieces between the colons
RECURSIVE split(_)
split(s) ==
  IF \A i \in 1..Len(s) : s[i] # ":"
  THEN <<s>>
  ELSE LET k == CHOOSE i \in 1..Len(s) : s[i] = ":" /\ \A j \in 1..(i - 1) : s[j] # ":"
       IN <<SubSeq(s, 1, k - 1)>> \o split(SubSeq(s, k + 1, Len(s)))

\* Number(piece) for pieces made of decimal digits; '' is 0, anything else NaN
RECURSIVE DecimalValue(_)
DecimalValue(s) ==
  IF s = <<>> THEN 0
  ELSE 10 * DecimalValue(SubSeq(s, 1, Len(s) - 1)) + DigitVal(s[Len(s)])

Number(s) ==
  IF \A i \in 1..Len(s) : s[i] \in Digits THEN Some(DecimalValue(s)) ELSE None

\* h * 60 + m over the first two pieces; None stands for NaN (a missing or
\* non-numeric piece)
MinutesOf(t) ==
  LET parts == split(t)
      h == Number(parts[1])
      m == IF Len(parts) >= 2 THEN Number(parts[2]) ELSE None
  IN IF IsSome(h) /\ IsSome(m) THEN Some(Val(h) * 60 + Val(m)) ELSE None

\* a day that still includes the minute of the sunset
isDaytimeInclusive ==
  LET w == activeWeather
  IN IF w.sunrise = None \/ w.sunset = None THEN TRUE
     ELSE LET now == currentTime
              rise == MinutesOf(w.sunrise)
              set == MinutesOf(w.sunset)
          IN IsSome(rise) /\ IsSome(set) /\ now >= Val(rise) /\ now <= Val(set)

\* App.tsx isDaytime; part_000 has no day/night computation at all
isDaytime ==
  LET w == activeWeather
  IN IF w.sunrise = None \/ w.sunset = None THEN TRUE
     ELSE LET now == currentTime
              rise == MinutesOf(w.sunrise)
              set == MinutesOf(w.sunset)
          IN IsSome(rise) /\ IsSome(set) /\ now >= Val(rise) /\ now < Val(set)

Conditions == {"clear", "cloudy", "rainy", "night", "hazy"}

\* the key of ATMOSPHERIC_THEMES the background gradient is taken from
\* ("eink" for the fixed white theme)
theme ==
  IF isEink THEN "eink"
  ELSE IF activeWeather.condition \in Conditions THEN activeWeather.condition
  ELSE "clear"

\* the condition the icon and the text label show
iconCondition == activeWeather.condition

\* an animation prop without the night override
animationConditionRaw == activeWeather.condition

\* the condition prop handed to <WeatherAnimations/>
animationCondition ==
  IF variant = "P000" THEN activeWeather.condition
  ELSE IF ~isDaytime /\ activeWeather.condition = "clear" THEN "night"
  ELSE activeWeather.condition

\* the two early returns of App
SetupScreen ==
  /\ variant = "P001A"
  /\ error = "API_KEY not detected."
  /\ weather = null

LoadingScreen == ~SetupScreen /\ isLoading /\ weather = null

MainView == ~SetupScreen /\ ~LoadingScreen

----------------------------------------------------------------------------
(* fetchWeather *)

\* the iterations that pass a responseSchema whose `condition` is an enum of
\* the five values; the others ask for JSON in the prompt only
SchemaVariants == {"AppB", "P001A", "P001B"}

\* what JSON.parse(response.text) may yield in iteration v
ParsedReadings(v) ==
  IF v \in SchemaVariants THEN {r \in UpstreamReadings : r.condition \in Conditions}
  ELSE UpstreamReadings

KeyMissing == variant \in KeyCheckVariants /\ ~apiKey

MissingKeyMessage == IF variant = "P001A" THEN "MISSING_API_KEY" ELSE "API_KEY_MISSING"

\* String.prototype.toLowerCase and includes over the messages above
toLowerCase(msg) ==
  CASE msg = "Failed to fetch" -> "failed to fetch"
    [] msg = "429 Too Many Requests" -> "429 too many requests"
    [] msg = "Quota exceeded" -> "quota exceeded"
    [] msg = "API_KEY_MISSING" -> "api_key_missing"
    [] msg = "MISSING_API_KEY" -> "missing_api_key"
    [] OTHER -> msg

includes429(msg) == msg \in {"429 Too Many Requests", "429 too many requests"}
includesQuota(msg) == msg \in {"quota exceeded"}

\* a quota test that forgets to lower the case
IsQuotaMessageCaseSensitive(msg) == includes429(msg) \/ includesQuota(msg)

\* errMsg.includes("429") || errMsg.toLowerCase().includes("quota")
IsQuotaMessage(msg) == includes429(msg) \/ includesQuota(toLowerCase(msg))

\* a catch block that swallows the failure
CatchErrorSilent(v, msg) == NoError

\* the status string the catch block stores
CatchError(v, msg) ==
  CASE v \in {"AppA", "AppB"} -> "Atmospheric sync failed."
    [] v = "P000" -> "Atmospheric data unavailable. Reverting to local pulse."
    [] v = "P009" -> "Atmospheric sync error"
    [] v = "P001A" -> IF msg = "MISSING_API_KEY" THEN "API_KEY not detected."
                      ELSE IF msg = "" THEN "Sync failed." ELSE msg
    [] v = "P001B" -> IF IsQuotaMessage(msg) THEN "Quota Exceeded."
                      ELSE IF msg = "API_KEY_MISSING" THEN "Key Needed."
                      ELSE "Sync failed."

\* the reading slot after the catch block: `captured` is the `weather` the
\* useCallback closure of this call was created with, `current` the state
CatchWeather(v, captured, current) ==
  IF v = "P000" THEN MOCK_WEATHER(v)
  ELSE IF captured = null THEN MOCK_WEATHER(v)
  ELSE current

\* isLocating after the finally block
FinallyLocating(v, locating) == IF v = "P000" THEN locating ELSE FALSE

NewCall(origin, lat, lon, hint, captured, status) ==
  [origin |-> origin, lat |-> lat, lon |-> lon, hint |-> hint,
   captured |-> captured, status |-> status]

\* `calls` and `locates` are the model's record of the calls in flight.  A
\* call that has settled keeps only its place and its origin; the record of
\* a call that settled without ever awaiting is cut down when the next call
\* starts.
SettledCall(c) == NewCall(c.origin, None, None, None, null, "settled")
Settle(cs) == [k \in 1..Len(cs) |-> IF cs[k].status = "pending" THEN cs[k] ELSE SettledCall(cs[k])]

\* The synchronous part of fetchWeather, up to the await of generateContent
\* (or through catch/finally when the key check throws).  `locating` is the
\* isLocating value the caller leaves behind.
fetchWeather(captured, lat, lon, hint, origin, locating) ==
  IF KeyMissing
  THEN /\ error' = CatchError(variant, MissingKeyMessage)
       /\ weather' = CatchWeather(variant, captured, weather)
       /\ isLoading' = FALSE
       /\ isLocating' = FinallyLocating(variant, locating)
       /\ calls' = Append(Settle(calls), NewCall(origin, lat, lon, hint, captured, "failed"))
  ELSE /\ error' = NoError
       /\ weather' = weather
       /\ isLoading' = TRUE
       /\ isLocating' = locating
       /\ calls' = Append(Settle(calls), NewCall(origin, lat, lon, hint, captured, "pending"))

\* JavaScript truthiness of an optional number and of an optional text
TruthyNumber(o) == IsSome(o) /\ Val(o) # 0
TruthyText(o) == IsSome(o) /\ Val(o) # <<>>

\* the location part of the prompt: which of the three templates is used,
\* and what is put into it
Context(kind, lat, lon, place) == [kind |-> kind, lat |-> lat, lon |-> lon, place |-> place]

locationContext(v, lat, lon, hint) ==
  LET coords == IF v = "P009" THEN TruthyNumber(lat) /\ TruthyNumber(lon)
                ELSE IsSome(lat) /\ IsSome(lon)
  IN IF coords THEN Context("coordinates", lat, lon, None)
     ELSE IF v # "P000" /\ TruthyText(hint) THEN Context("place", None, None, hint)
     ELSE Context("generic", None, None, None)

\* `shown` tells which call's response is in the reading slot.  It is kept
\* only while a call started before that one is still pending, and is 0
\* otherwise (also when the slot holds no response).
Overtaking(k, cs) ==
  IF \E j \in 1..(k - 1) : cs[j].status = "pending" THEN k ELSE 0

\* the sources kept from a response's grounding chunks
ExtractSources(chunks) ==
  LET kept == SelectSeq(chunks, LAMBDA c : IsSome(c.web))
  IN [i \in 1..Len(kept) |-> Val(kept[i].web)]

\* generateContent resolved with a parsable reading
FetchSucceed(k, data, grounding) ==
  /\ calls[k].status = "pending"
  /\ calls' = [calls EXCEPT ![k] = SettledCall(@)]
  /\ weather' = data
  /\ shown' = Overtaking(k, calls')
  /\ showSearch' = IF variant \in SearchVariants THEN FALSE ELSE showSearch
  /\ manualSearch' = IF variant = "P001A" THEN <<>> ELSE manualSearch
  /\ error' = IF variant \in SearchVariants THEN NoError ELSE error
  /\ sources' = IF IsSome(grounding) THEN ExtractSources(Val(grounding)) ELSE sources
  /\ isLoading' = FALSE
  /\ isLocating' = FinallyLocating(variant, isLocating)
  /\ UNCHANGED <<envVars, isEink, currentTime, locates, tennisVars>>

\* a catch block that retries the call by itself
FetchFailRetry(k, msg) ==
  /\ calls[k].status = "pending"
  /\ calls' = IF Len(calls) <= MaxOps
              THEN Append([calls EXCEPT ![k] = SettledCall(@)],
                          NewCall(calls[k].origin, calls[k].lat, calls[k].lon, calls[k].hint,
                                  calls[k].captured, "pending"))
              ELSE [calls EXCEPT ![k] = SettledCall(@)]
  /\ error' = CatchError(variant, msg)
  /\ weather' = CatchWeather(variant, calls[k].captured, weather)
  /\ shown' = IF weather' = weather THEN Overtaking(shown, calls') ELSE 0
  /\ isLoading' = FALSE
  /\ isLocating' = FinallyLocating(variant, isLocating)
  /\ UNCHANGED <<envVars, isEink, currentTime, sources, manualSearch, showSearch,
                 locates, tennisVars>>

\* generateContent rejected, or its text did not parse
FetchFail(k, msg) ==
  /\ calls[k].status = "pending"
  /\ calls' = [calls EXCEPT ![k] = SettledCall(@)]
  /\ error' = CatchError(variant, msg)
  /\ weather' = CatchWeather(variant, calls[k].captured, weather)
  /\ shown' = IF weather' = weather THEN Overtaking(shown, calls') ELSE 0
  /\ isLoading' = FALSE
  /\ isLocating' = FinallyLocating(variant, isLocating)
  /\ UNCHANGED <<envVars, isEink, currentTime, sources, manualSearch, showSearch,
                 locates, tennisVars>>

\* The iterations without a responseSchema look for the JSON object in the
\* response text.  A text is a sequence of chunks: "{" and "}" are the brace
\* characters, "body" the members of the reading, "prose" any other text.
FreeTextVariants == Variants \ SchemaVariants

ResponseTexts ==
  { <<"{", "body", "}">>,
    <<"prose", "{", "body", "}", "prose">>,
    <<"{", "body", "}", "prose", "}">>,
    <<"{", "prose", "}", "prose", "{", "body", "}">>,
    <<"prose">>,
    <<>> }

\* text.match(/\{[\s\S]*\}/): from the first "{" to the last "}" after it
match(text) ==
  LET opens == {i \in 1..Len(text) : text[i] = "{"}
      closes == {j \in 1..Len(text) : text[j] = "}"}
  IN IF opens = {} THEN None
     ELSE LET first == CHOOSE i \in opens : \A o \in opens : i <= o
              after == {j \in closes : j > first}
          IN IF after = {} THEN None
             ELSE LET last == CHOOSE j \in after : \A c \in after : j >= c
                  IN Some(SubSeq(text, first, last))

\* JSON.parse accepts the object and throws on anything else
JSONparses(m) == m = <<"{", "body", "}">>

\* generateContent resolved with `text`, whose object (if any) holds `data`
FetchText(k, text, data, grounding) ==
  /\ variant \in FreeTextVariants
  /\ LET m == match(text)
     IN IF IsSome(m) /\ JSONparses(Val(m)) THEN FetchSucceed(k, data, grounding)
        ELSE FetchFail(k, IF IsSome(m) THEN "Unexpected token in JSON"
                          ELSE "Invalid atmospheric data format.")

----------------------------------------------------------------------------
(* handleLocate and its callbacks *)

NewLocate(geo, fetchCalls, captured) ==
  [geo |-> geo, ip |-> "none", answer |-> None, fetchCalls |-> fetchCalls,
   captured |-> captured]

\* a resolution whose callbacks have all run is cut down to its place when
\* the next resolution starts
Resolving(l) == l.geo = "pending" \/ l.ip = "pending"
Resolved(ls) == [i \in 1..Len(ls) |-> IF Resolving(ls[i]) THEN ls[i] ELSE NewLocate("done", 0, null)]

\* user-triggered operations started so far
OpsUsed == Len(locates) + Cardinality({k \in 1..Len(calls) : calls[k].origin = 0})

\* handleLocate (in part_000: the body of the mount effect, which has no
\* isLocating).  `captured` is the reading the enclosing closures hold.
handleLocate(captured) ==
  LET locating == IF variant = "P000" THEN isLocating ELSE TRUE
  IN IF hasGeolocation
     THEN /\ locates' = Append(Resolved(locates), NewLocate("pending", 0, captured))
          /\ isLocating' = locating
          /\ error' = IF variant = "P001A" THEN NoError ELSE error
          /\ UNCHANGED <<weather, isLoading, calls>>
     ELSE /\ locates' = Append(Resolved(locates), NewLocate("unsupported", 1, null))
          /\ fetchWeather(captured, None, None, None, Len(locates) + 1, locating)

\* the mount effect: useEffect(() => { handleLocate(); }, [])
Mount ==
  /\ locates = <<>>
  /\ handleLocate(weather)
  /\ UNCHANGED <<envVars, shown, isEink, currentTime, sources, manualSearch, showSearch,
                 tennisVars>>

\* click on the locate control (disabled={isLocating})
ClickLocate ==
  /\ locates # <<>>
  /\ variant \in LocatingVariants
  /\ MainView
  /\ ~isLocating
  /\ OpsUsed < MaxOps
  /\ handleLocate(weather)
  /\ UNCHANGED <<envVars, shown, isEink, currentTime, sources, manualSearch, showSearch,
                 tennisVars>>

\* getCurrentPosition's success callback
GeoSuccess(i, lat, lon) ==
  /\ locates[i].geo = "pending"
  /\ locates' = [locates EXCEPT ![i].geo = "ok", ![i].fetchCalls = @ + 1,
                                     ![i].captured = null]
  /\ fetchWeather(locates[i].captured, Some(lat), Some(lon), None, i, isLocating)
  /\ UNCHANGED <<envVars, shown, isEink, currentTime, sources, manualSearch, showSearch,
                 tennisVars>>

\* a getCurrentPosition error callback that starts the IP lookup and also
\* falls back to the generic fetch at once
GeoErrorFanOut(i) ==
  /\ locates[i].geo = "pending"
  /\ locates' = [locates EXCEPT ![i].geo = "err", ![i].fetchCalls = @ + 1,
                                ![i].ip = IF variant \in IpVariants THEN "pending" ELSE @]
  /\ fetchWeather(locates[i].captured, None, None, None, i, isLocating)
  /\ UNCHANGED <<envVars, shown, isEink, currentTime, sources, manualSearch, showSearch,
                 tennisVars>>

\* getCurrentPosition's error callback, up to its first await
GeoError(i) ==
  /\ locates[i].geo = "pending"
  /\ IF variant \in IpVariants
     THEN /\ locates' = [locates EXCEPT ![i].geo = "err", ![i].ip = "pending"]
          /\ UNCHANGED <<weather, isLoading, isLocating, error, calls>>
     ELSE /\ locates' = [locates EXCEPT ![i].geo = "err", ![i].fetchCalls = @ + 1,
                                        ![i].captured = null]
          /\ fetchWeather(locates[i].captured, None, None, None, i, isLocating)
  /\ UNCHANGED <<envVars, shown, isEink, currentTime, sources, manualSearch, showSearch,
                 tennisVars>>

\* a descriptor that drops the country
CityOnly(ans) == <<Val(ans.city)>>

\* `${data.city}, ${data.country_name}`
CityCountry(ans) ==
  <<Val(ans.city), ", ", IF IsSome(ans.country_name) THEN Val(ans.country_name) ELSE "undefined">>

\* the IP lookup answered (fetch and json() both resolved)
IpAnswer(i, ans) ==
  /\ locates[i].ip = "pending"
  /\ IF IsSome(ans.city)
     THEN /\ locates' = [locates EXCEPT ![i].ip = "city", ![i].answer = Some(ans),
                                        ![i].fetchCalls = @ + 1, ![i].captured = null]
          /\ fetchWeather(locates[i].captured, None, None, Some(CityCountry(ans)), i, isLocating)
     ELSE IF variant = "P001A"
     THEN /\ locates' = [locates EXCEPT ![i].ip = "nocity", ![i].captured = null]
          /\ UNCHANGED <<weather, isLoading, isLocating, error, calls>>
     ELSE /\ locates' = [locates EXCEPT ![i].ip = "nocity", ![i].fetchCalls = @ + 1,
                                        ![i].captured = null]
          /\ fetchWeather(locates[i].captured, None, None, None, i, isLocating)
  /\ UNCHANGED <<envVars, shown, isEink, currentTime, sources, manualSearch, showSearch,
                 tennisVars>>

\* the IP lookup rejected (or its body was not JSON)
IpReject(i) ==
  /\ locates[i].ip = "pending"
  /\ IF variant = "P001A"
     THEN /\ locates' = [locates EXCEPT ![i].ip = "rejected", ![i].captured = null]
          /\ error' = "Location access denied."
          /\ isLocating' = FALSE
          /\ isLoading' = FALSE
          /\ UNCHANGED <<weather, calls>>
     ELSE /\ locates' = [locates EXCEPT ![i].ip = "rejected", ![i].fetchCalls = @ + 1,
                                        ![i].captured = null]
          /\ fetchWeather(locates[i].captured, None, None, None, i, isLocating)
  /\ UNCHANGED <<envVars, shown, isEink, currentTime, sources, manualSearch, showSearch,
                 tennisVars>>

----------------------------------------------------------------------------
(* The other controls *)

IsBlank(c) == c = " "

\* String.prototype.trim() over a text kept as chunks
RECURSIVE trim(_)
trim(s) ==
  IF s = <<>> THEN s
  ELSE IF IsBlank(Head(s)) THEN trim(Tail(s))
  ELSE IF IsBlank(s[Len(s)]) THEN trim(SubSeq(s, 1, Len(s) - 1))
  ELSE s

\* submit of the search form
SubmitSearch ==
  /\ variant \in SearchVariants
  /\ MainView
  /\ showSearch
  /\ OpsUsed < MaxOps
  /\ IF variant = "P001A"
     THEN /\ trim(manualSearch) # <<>>
          /\ fetchWeather(weather, None, None, Some(trim(manualSearch)), 0, isLocating)
     ELSE fetchWeather(weather, None, None, Some(manualSearch), 0, isLocating)
  /\ UNCHANGED <<envVars, shown, isEink, currentTime, sources, manualSearch, showSearch,
                 locates, tennisVars>>

\* onChange of the search input
TypeSearch(text) ==
  /\ variant \in SearchVariants
  /\ MainView
  /\ showSearch
  /\ text # manualSearch
  /\ manualSearch' = text
  /\ UNCHANGED <<envVars, shown, weather, isEink, currentTime, isLoading, isLocating, error,
                 sources, showSearch, locates, calls, tennisVars>>

\* setShowSearch(!showSearch)
ToggleSearch ==
  /\ variant \in SearchVariants
  /\ MainView
  /\ showSearch' = ~showSearch
  /\ UNCHANGED <<envVars, shown, weather, isEink, currentTime, isLoading, isLocating, error,
                 sources, manualSearch, locates, calls, tennisVars>>

\* a refresh button that is never disabled
RefreshAlways ==
  /\ variant = "P000"
  /\ MainView
  /\ OpsUsed < MaxOps
  /\ fetchWeather(weather, None, None, None, 0, isLocating)
  /\ UNCHANGED <<envVars, shown, isEink, currentTime, sources, manualSearch, showSearch,
                 locates, tennisVars>>

\* the refresh button of part_000 (disabled={isLoading})
Refresh ==
  /\ variant = "P000"
  /\ MainView
  /\ ~isLoading
  /\ OpsUsed < MaxOps
  /\ fetchWeather(weather, None, None, None, 0, isLocating)
  /\ UNCHANGED <<envVars, shown, isEink, currentTime, sources, manualSearch, showSearch,
                 locates, tennisVars>>

\* a mode button that also dismisses the error line
ToggleEinkDismiss ==
  /\ MainView
  /\ isEink' = ~isEink
  /\ error' = NoError
  /\ UNCHANGED <<envVars, shown, weather, currentTime, isLoading, isLocating, sources,
                 manualSearch, showSearch, locates, calls, tennisVars>>

\* setIsEink(!isEink)
ToggleEink ==
  /\ MainView
  /\ isEink' = ~isEink
  /\ UNCHANGED <<envVars, shown, weather, currentTime, isLoading, isLocating, error, sources,
                 manualSearch, showSearch, locates, calls, tennisVars>>

\* a timer that also polls the weather
TickRefetch(now) ==
  /\ locates # <<>>
  /\ now # currentTime
  /\ currentTime' = now
  /\ IF Len(calls) <= MaxOps
     THEN fetchWeather(weather, None, None, None, 0, isLocating)
     ELSE UNCHANGED <<weather, isLoading, isLocating, error, calls>>
  /\ UNCHANGED <<envVars, shown, isEink, sources, manualSearch, showSearch, locates, tennisVars>>

\* setInterval(() => setCurrentTime(new Date()), 1000)
Tick(now) ==
  /\ locates # <<>>
  /\ now # currentTime
  /\ currentTime' = now
  /\ UNCHANGED <<envVars, shown, weather, isEink, isLoading, isLocating, error, sources,
                 manualSearch, showSearch, locates, calls, tennisVars>>

----------------------------------------------------------------------------
(* TennisIndex *)

\* Temperature and wind of a reading handed to the evaluator are counted in
\* 1/Resolution units; U(n) is the threshold n of the source in those units.
U(n) == n * Resolution

TennisVariants == {"TennisIndex", "P003", "P004", "P005A", "P005B", "P009"}

Verdict(status, score, label) == [status |-> status, score |-> score, label |-> label]

\* an evaluator that tests the wind before the rain
getTennisDataWindFirst(w) ==
  IF w.windSpeed > U(25) THEN Verdict("Too Windy", 40, "Fair")
  ELSE IF w.precipitation > 0 THEN Verdict("Courts Wet", 20, "Poor")
  ELSE IF w.temp < U(10) \/ w.temp > U(35) THEN Verdict("Extreme Temp", 50, "Okay")
  ELSE IF w.temp >= U(18) /\ w.temp <= U(24) /\ w.windSpeed < U(10)
       THEN Verdict("Elite Play", 100, "Perfect")
  ELSE Verdict("Good Play", 80, "Solid")

\* an evaluator that takes the rain from the condition instead of the
\* precipitation
getTennisDataByCondition(w) ==
  IF w.condition = "rainy" THEN Verdict("Courts Wet", 20, "Poor")
  ELSE IF w.windSpeed > U(25) THEN Verdict("Too Windy", 40, "Fair")
  ELSE IF w.temp < U(10) \/ w.temp > U(35) THEN Verdict("Extreme Temp", 50, "Okay")
  ELSE IF w.temp >= U(18) /\ w.temp <= U(24) /\ w.windSpeed < U(10)
       THEN Verdict("Elite Play", 100, "Perfect")
  ELSE Verdict("Good Play", 80, "Solid")

\* an evaluator with the elite band of the other iterations (15 to 25)
getTennisDataWideBand(w) ==
  IF w.precipitation > 0 THEN Verdict("Courts Wet", 20, "Poor")
  ELSE IF w.windSpeed > U(25) THEN Verdict("Too Windy", 40, "Fair")
  ELSE IF w.temp < U(10) \/ w.temp > U(35) THEN Verdict("Extreme Temp", 50, "Okay")
  ELSE IF w.temp >= U(15) /\ w.temp <= U(25) /\ w.windSpeed < U(10)
       THEN Verdict("Elite Play", 100, "Perfect")
  ELSE Verdict("Good Play", 80, "Solid")

\* an evaluator that tests the heat only, as part_003 does
getTennisDataHeatOnly(w) ==
  IF w.precipitation > 0 THEN Verdict("Courts Wet", 20, "Poor")
  ELSE IF w.windSpeed > U(25) THEN Verdict("Too Windy", 40, "Fair")
  ELSE IF w.temp > U(35) THEN Verdict("Extreme Temp", 50, "Okay")
  ELSE IF w.temp >= U(18) /\ w.temp <= U(24) /\ w.windSpeed < U(10)
       THEN Verdict("Elite Play", 100, "Perfect")
  ELSE Verdict("Good Play", 80, "Solid")

\* src/components/TennisIndex.tsx and part_005 (second): getTennisData
getTennisData(w) ==
  IF w.precipitation > 0 THEN Verdict("Courts Wet", 20, "Poor")
  ELSE IF w.windSpeed > U(25) THEN Verdict("Too Windy", 40, "Fair")
  ELSE IF w.temp < U(10) \/ w.temp > U(35) THEN Verdict("Extreme Temp", 50, "Okay")
  ELSE IF w.temp >= U(18) /\ w.temp <= U(24) /\ w.windSpeed < U(10)
       THEN Verdict("Elite Play", 100, "Perfect")
  ELSE Verdict("Good Play", 80, "Solid")

\* part_005 (first): getTennisData returns no label, the card derives it
getTennisData005(w) ==
  LET d == getTennisData(w)
  IN Verdict(d.status, d.score,
             IF d.score = 100 THEN "Perfect" ELSE IF d.score >= 80 THEN "Solid" ELSE "Poor")

\* part_003: getTennisVerdict (its score is a word)
getTennisVerdict003(w) ==
  IF w.precipitation > 0 THEN [status |-> "Courts likely wet", score |-> "Poor"]
  ELSE IF w.windSpeed > U(20) THEN [status |-> "High winds detected", score |-> "Challenging"]
  ELSE IF w.temp >= U(15) /\ w.temp <= U(25) /\ w.windSpeed < U(10)
       THEN [status |-> "Perfect Conditions", score |-> "Elite"]
  ELSE IF w.temp > U(30) THEN [status |-> "High Heat", score |-> "Fair"]
  ELSE [status |-> "Playable", score |-> "Good"]

\* part_004 and part_009: getTennisVerdict
getTennisVerdict(w) ==
  IF w.precipitation > 0 THEN [status |-> "Courts likely wet", score |-> "Poor"]
  ELSE IF w.windSpeed > U(20) THEN [status |-> "High winds", score |-> "Challenging"]
  ELSE IF w.temp >= U(15) /\ w.temp <= U(25) /\ w.windSpeed < U(10)
       THEN [status |-> "Perfect Conditions", score |-> "Elite"]
  ELSE [status |-> "Playable", score |-> "Good"]

\* What the card shows: the status line, the verdict word, the width of the
\* progress bar and the percentage printed next to "Sync".
\* (`score` and `sync` are None in the iterations that print a word only.)
TennisCard(t, w) ==
  IF t \in {"TennisIndex", "P005A", "P005B"}
  THEN LET d == IF t = "P005A" THEN getTennisData005(w) ELSE getTennisData(w)
       IN [status |-> d.status, label |-> d.label, score |-> Some(d.score),
           sync |-> Some(IF t = "TennisIndex" THEN d.score ELSE 100)]
  ELSE LET d == IF t = "P003" THEN getTennisVerdict003(w) ELSE getTennisVerdict(w)
       IN [status |-> d.status, label |-> d.score, score |-> None, sync |-> None]

NotRendered == [status |-> "none"]

\* Readings handed to the evaluator: every temperature, wind speed and
\* precipitation of the grid.
TennisReadings ==
  { [temp |-> t, condition |-> "clear", location |-> "Court",
     windSpeed |-> ws, humidity |-> 45, precipitation |-> pr,
     sunrise |-> None, sunset |-> None] :
      t \in (0 - MaxFrost * Resolution)..(MaxTemp * Resolution), ws \in 0..(MaxWind * Resolution), pr \in 0..MaxPrecip }

\* <TennisIndex weather={activeWeather} /> renders the card
RenderTennis ==
  /\ card = NotRendered
  /\ card' = TennisCard(tennis, activeWeather)
  /\ UNCHANGED <<envVars, shown, weather, isEink, currentTime, isLoading, isLocating, error,
                 sources, manualSearch, showSearch, locates, calls, tennis>>

TennisInit ==
  /\ variant = "AppA"
  /\ apiKey = TRUE
  /\ hasGeolocation = TRUE
  /\ storage = None
  /\ weather \in TennisReadings
  /\ isEink = FALSE
  /\ currentTime = 720
  /\ isLoading = FALSE
  /\ isLocating = FALSE
  /\ error = NoError
  /\ sources = <<>>
  /\ manualSearch = <<>>
  /\ showSearch = FALSE
  /\ locates = <<>>
  /\ calls = <<>>
  /\ shown = 0
  /\ tennis \in TennisVariants
  /\ card = NotRendered

TennisNext == RenderTennis

TennisSpec == TennisInit /\ [][TennisNext]_vars

----------------------------------------------------------------------------
(* The app *)

\* the state of App after construction (the first render)
AppInit ==
  /\ variant \in Variants
  /\ apiKey \in BOOLEAN
  /\ (variant \notin KeyCheckVariants => apiKey)
  /\ hasGeolocation \in BOOLEAN
  /\ weather = null
  /\ isEink = FALSE
  /\ currentTime \in ClockValues
  /\ isLoading = TRUE
  /\ isLocating = FALSE
  /\ error = NoError
  /\ sources = <<>>
  /\ manualSearch = <<>>
  /\ showSearch = FALSE
  /\ locates = <<>>
  /\ calls = <<>>
  /\ shown = 0
  /\ tennis = "TennisIndex"
  /\ card = NotRendered

\* No iteration of App writes the client-local storage, so a first visit and
\* every later one start with no cache entry.
Init == AppInit /\ storage = None

\* A page load that finds a fresh cache entry (less than 30 minutes old, with
\* a resolved location) in the client-local storage.
CacheEntries == {Some(r) : r \in {u \in UpstreamReadings : u.condition = "clear"}}
CacheInit == AppInit /\ storage \in CacheEntries

Next ==
  \/ Mount
  \/ ClickLocate
  \/ \E i \in 1..Len(locates), lat \in Latitudes, lon \in Longitudes : GeoSuccess(i, lat, lon)
  \/ \E i \in 1..Len(locates) : GeoError(i)
  \/ \E i \in 1..Len(locates), ans \in IpAnswers : IpAnswer(i, ans)
  \/ \E i \in 1..Len(locates) : IpReject(i)
  \/ \E k \in 1..Len(calls), data \in ParsedReadings(variant), g \in Groundings :
       FetchSucceed(k, data, g)
  \/ \E k \in 1..Len(calls), msg \in ErrMessages : FetchFail(k, msg)
  \/ \E k \in 1..Len(calls), text \in ResponseTexts, data \in ParsedReadings(variant),
        g \in Groundings : FetchText(k, text, data, g)
  \/ SubmitSearch
  \/ \E text \in SearchInputs : TypeSearch(text)
  \/ ToggleSearch
  \/ Refresh
  \/ ToggleEink
  \/ \E now \in ClockValues : Tick(now)

Spec == Init /\ [][Next]_vars

\* Geolocation calls one of its two callbacks, and every HTTP or AI call
\* resolves or rejects; nothing obliges the user to act.
GeoCallback ==
  \E i \in 1..Len(locates) :
    \/ \E lat \in Latitudes, lon \in Longitudes : GeoSuccess(i, lat, lon)
    \/ GeoError(i)

IpSettles ==
  \E i \in 1..Len(locates) :
    \/ \E ans \in IpAnswers : IpAnswer(i, ans)
    \/ IpReject(i)

FetchSettles ==
  \E k \in 1..Len(calls) :
    \/ \E data \in ParsedReadings(variant), g \in Groundings : FetchSucceed(k, data, g)
    \/ \E msg \in ErrMessages : FetchFail(k, msg)

CacheSpec == CacheInit /\ [][Next]_vars

\* The clock running over a loaded reading: the reading's sunrise and sunset
\* are any of the times above or missing, and the clock takes the minutes
\* around each of them.
DayTimes == {None, T0600, T0615, T0710, T1820, T2000, T2030}

DayReadings ==
  { [temp |-> 21, condition |-> "clear", location |-> "Paris, France",
     windSpeed |-> 8, humidity |-> 45, precipitation |-> 0,
     sunrise |-> r, sunset |-> t] : r \in DayTimes, t \in DayTimes }

DayClock ==
  {0, 1439} \cup {b + d : b \in {360, 375, 430, 1100, 1200, 1230}, d \in {0 - 1, 0, 1}}

DayInit ==
  /\ variant \in LocatingVariants
  /\ apiKey = TRUE
  /\ hasGeolocation = FALSE
  /\ storage = None
  /\ weather \in DayReadings
  /\ isEink = FALSE
  /\ currentTime = 0
  /\ isLoading = FALSE
  /\ isLocating = FALSE
  /\ error = NoError
  /\ sources = <<>>
  /\ manualSearch = <<>>
  /\ showSearch = FALSE
  /\ locates = <<NewLocate("unsupported", 1, null)>>
  /\ calls = <<SettledCall(NewCall(1, None, None, None, null, "pending"))>>
  /\ shown = 0
  /\ tennis = "TennisIndex"
  /\ card = NotRendered

DayNext == \E now \in DayClock : Tick(now)

DaySpec == DayInit /\ [][DayNext]_vars

FairSpec ==
  /\ Init /\ [][Next]_vars
  /\ WF_vars(Mount) /\ WF_vars(GeoCallback) /\ WF_vars(IpSettles) /\ WF_vars(FetchSettles)

----------------------------------------------------------------------------
(* Properties *)

\* a handleLocate resolution that has not yet run to its end
LocateInFlight(i) ==
  \/ Resolving(locates[i])
  \/ \E k \in 1..Len(calls) : calls[k].origin = i /\ calls[k].status = "pending"

\* the step is the catch/finally of a fetchWeather call: an awaited call that
\* rejected, or a call whose key check threw
FetchFailureStep ==
  \/ \E k \in 1..Len(calls), msg \in ErrMessages : FetchFail(k, msg)
  \/ KeyMissing /\ Len(calls') = Len(calls) + 1

\* C1 (as claimed): a failing fetchWeather call leaves a reading obtained
\* from an earlier successful fetch unchanged, in every App variant.
C1_FailureKeepsReading ==
  [][(FetchFailureStep /\ weather \in UpstreamReadings) => weather' = weather]_vars

\* C2 (as claimed): after every handleLocate trigger the app eventually has
\* isLocating = false and isLoading = false with a reading displayed.
C2_LocateSettles ==
  (\E i \in 1..Len(locates) : LocateInFlight(i))
    ~> (~isLocating /\ ~isLoading /\ MainView)

\* C3: when a fetch fails while no reading exists yet, the displayed reading
\* is the placeholder MOCK_WEATHER, the error status is non-null and the
\* loading screen is gone.
C3_FirstFailureShowsPlaceholder ==
  [][(FetchFailureStep /\ weather = null)
       => /\ activeWeather' = MOCK_WEATHER(variant)
          /\ error' # NoError
          /\ ~LoadingScreen']_vars

C3_Witness ==
  /\ weather = MOCK_WEATHER(variant)
  /\ error \in {CatchError(variant, m) : m \in ErrMessages}
  /\ ~isLoading
  /\ MainView
  /\ \E k \in 1..Len(calls) : calls[k].status = "settled"

\* C4: in every TennisIndex variant a reading with precipitation > 0 gets the
\* Poor / courts-wet verdict (score 20 where the score is a number), whatever
\* its wind speed and temperature.
C4_RainIsPoor ==
  (card # NotRendered /\ weather.precipitation > 0)
    => /\ card.label = "Poor"
       /\ card.status \in {"Courts Wet", "Courts likely wet"}
       /\ (IsSome(card.score) => Val(card.score) = 20)

C4_Witness ==
  /\ card # NotRendered
  /\ weather.precipitation = 2
  /\ weather.windSpeed = U(26)
  /\ weather.temp = U(20)
  /\ tennis = "TennisIndex"

\* C5 (as claimed): in the variants with a manual search, isLocating is true
\* for as long as a handleLocate resolution is in flight, and at most one
\* resolution is in flight.
C5_LocatingWhileInFlight ==
  variant \in SearchVariants
    => /\ \A i \in 1..Len(locates) : LocateInFlight(i) => isLocating
       /\ Cardinality({i \in 1..Len(locates) : LocateInFlight(i)}) <= 1

\* C6 (as claimed): once a fetch has failed on the missing API key, part_001
\* (first) shows the setup-required screen, and not the weather view.
C6_SetupScreenShown ==
  (variant = "P001A" /\ error = CatchError("P001A", "MISSING_API_KEY")) => SetupScreen

\* C7: within one handleLocate resolution the IP lookup starts only after
\* geolocation reported an error, fetchWeather is called only once the
\* location stage is over, and fetchWeather is called at most once.
C7_StagesSequential ==
  \A i \in 1..Len(locates) :
    LET l == locates[i]
        n == Cardinality({k \in 1..Len(calls) : calls[k].origin = i})
    IN /\ n <= 1
       /\ (l.geo # "done" => n = l.fetchCalls)
       /\ (l.ip # "none" => l.geo = "err")
       /\ (n = 1 => ~Resolving(l))

C7_Witness ==
  \E i \in 1..Len(locates) :
    /\ locates[i].geo = "err"
    /\ locates[i].ip = "city"
    /\ locates[i].fetchCalls = 1
    /\ \E k \in 1..Len(calls) : calls[k].origin = i /\ calls[k].status = "pending"

\* C8: in the variants with an IP lookup, when geolocation reported an error
\* and the lookup answers with a city and a country, fetchWeather is invoked
\* with the text "<city>, <country>" and without latitude or longitude.
C8_IpCityDescriptor ==
  [][\A i \in 1..Len(locates), ans \in IpAnswers :
       (IpAnswer(i, ans) /\ IsSome(ans.city) /\ IsSome(ans.country_name))
         => /\ variant \in IpVariants
            /\ locates[i].geo = "err"
            /\ Len(calls') = Len(calls) + 1
            /\ LET c == calls'[Len(calls')]
               IN /\ c.origin = i
                  /\ c.hint = Some(<<Val(ans.city), ", ", Val(ans.country_name)>>)
                  /\ c.lat = None
                  /\ c.lon = None]_vars

C8_Witness ==
  \E i \in 1..Len(locates), k \in 1..Len(calls) :
    /\ locates[i].geo = "err"
    /\ locates[i].ip = "city"
    /\ calls[k].origin = i
    /\ calls[k].hint = Some(<<"Paris", ", ", "France">>)
    /\ calls[k].lat = None
    /\ calls[k].status = "pending"

\* C9 (as claimed): when geolocation fails and the IP lookup fails too (it
\* rejects or answers without a city), the resolver still calls the weather
\* fetcher with the hard-coded fallback descriptor and sets an error status.
C9_FallbackAndError ==
  [][\A i \in 1..Len(locates) :
       (IpReject(i) \/ \E ans \in IpAnswers : IpAnswer(i, ans) /\ ~IsSome(ans.city))
         => /\ Len(calls') = Len(calls) + 1
            /\ calls'[Len(calls')].origin = i
            /\ calls'[Len(calls')].lat = None
            /\ calls'[Len(calls')].hint = None
            /\ error' # NoError]_vars

C11_ConditionValidated ==
  weather # null => weather.condition \in Conditions

\* a step that calls fetchWeather, or starts a handleLocate resolution
StartsFetch == Len(calls') > Len(calls)
StartsLocate == Len(locates') > Len(locates)

\* C12: a fetchWeather call is started only by the mount-time locate or by an
\* explicit user action (locate, refresh, search submit), directly or through
\* the callbacks of the resolution that action started; the settling of a
\* fetch (failed or not) and the clock tick start neither a call nor a
\* resolution.
C12_NoAutomaticFetch ==
  [][/\ StartsFetch =>
          /\ Len(calls') = Len(calls) + 1
          /\ LET c == calls'[Len(calls')]
             IN IF c.origin = 0 THEN SubmitSearch \/ Refresh
                ELSE IF c.origin > Len(locates) THEN Mount \/ ClickLocate
                ELSE Resolving(locates[c.origin]) /\ ~Resolving(locates'[c.origin])
     /\ StartsLocate => Mount \/ ClickLocate
     /\ (StartsFetch \/ StartsLocate) =>
          /\ currentTime' = currentTime
          /\ \A k \in 1..Len(calls) : calls[k].status = "pending" => calls'[k] = calls[k]]_vars

\* a fetch has failed, nothing is in flight and no further call was started
C12_Witness ==
  /\ error \in {CatchError(variant, m) : m \in ErrMessages}
  /\ Len(calls) = 1
  /\ calls[1].status = "settled"
  /\ \A i \in 1..Len(locates) : ~LocateInFlight(i)
  /\ currentTime = 1380

\* C13 (as claimed): at startup, when a fresh cache entry exists, the cached
\* reading is displayed and neither geolocation, nor the IP lookup, nor the
\* weather fetcher is invoked.
C13_CacheHitSkipsPipeline ==
  [][(IsSome(storage) /\ locates = <<>> /\ calls = <<>>)
       => /\ locates' = <<>>
          /\ calls' = <<>>
          /\ weather' = Val(storage)]_vars

\* C14: the evaluator gives every reading (any temperature, wind speed and
\* precipitation of the grid) one verdict of its iteration's list, and the
\* card depends on temp, windSpeed and precipitation only: the same reading
\* with another humidity or condition gets the same card.
C14_OneVerdictFromThreeFields ==
  card # NotRendered =>
    /\ card.status \in {"Courts Wet", "Too Windy", "Extreme Temp", "Elite Play", "Good Play",
                        "Courts likely wet", "High winds detected", "High winds",
                        "Perfect Conditions", "High Heat", "Playable"}
    /\ card.label \in {"Poor", "Fair", "Okay", "Perfect", "Solid", "Challenging", "Elite", "Good"}
    /\ \A h \in {0, 100}, c \in Conditions :
         TennisCard(tennis, [weather EXCEPT !.humidity = h, !.condition = c]) = card

C14_Witness ==
  /\ card # NotRendered
  /\ tennis = "P003"
  /\ weather.temp < 0
  /\ weather.windSpeed = 0
  /\ weather.precipitation = 0
  /\ card.label = "Good"

\* C15: in the canonical evaluator (src/components/TennisIndex.tsx, and the
\* copies of it in part_005) the verdict is Elite Play / Perfect with score 100
\* if and only if precipitation is not > 0, 18 <= temp <= 24 and
\* windSpeed < 10.
C15_EliteIff ==
  (card # NotRendered /\ tennis \in {"TennisIndex", "P005A", "P005B"})
    => ( (card.status = "Elite Play" /\ card.label = "Perfect" /\ card.score = Some(100))
         <=> ( /\ ~(weather.precipitation > 0)
               /\ weather.temp >= U(18) /\ weather.temp <= U(24)
               /\ weather.windSpeed < U(10) ) )
       /\ (card.score = Some(100) <=> card.status = "Elite Play")
       /\ (card.label = "Perfect" <=> card.status = "Elite Play")

\* the reading {temp 22, windSpeed 8, precipitation 0} is rendered as Perfect
C15_Witness ==
  /\ card # NotRendered
  /\ tennis = "TennisIndex"
  /\ weather.temp = U(22)
  /\ weather.windSpeed = U(8)
  /\ weather.precipitation = 0
  /\ card.label = "Perfect"
  /\ card.score = Some(100)

\* C16 (as claimed): for every reading with precipitation not > 0 and a wind
\* speed above the iteration's cutoff (25, or 20), the card shows the
\* Fair / Challenging too-windy tier, whatever the temperature.
C16_WindyIsFair ==
  LET cutoff == IF tennis \in {"TennisIndex", "P005A", "P005B"} THEN U(25) ELSE U(20)
  IN (card # NotRendered /\ ~(weather.precipitation > 0) /\ weather.windSpeed > cutoff)
       => /\ card.status \in {"Too Windy", "High winds detected", "High winds"}
          /\ card.label \in {"Fair", "Challenging"}

\* C17 (as claimed): for every reading with precipitation not > 0 and a wind
\* speed not above the cutoff, a temperature below 10 or above 35 yields the
\* Fair / Okay extreme-temperature tier (score 50 where the score is a
\* number), never Good / Playable and never Elite.
C17_ExtremeTempIsFair ==
  LET cutoff == IF tennis \in {"TennisIndex", "P005A", "P005B"} THEN U(25) ELSE U(20)
  IN ( /\ card # NotRendered
       /\ ~(weather.precipitation > 0)
       /\ ~(weather.windSpeed > cutoff)
       /\ (weather.temp < U(10) \/ weather.temp > U(35)) )
       => /\ card.status \in {"Extreme Temp", "High Heat"}
          /\ (IsSome(card.score) => card.score = Some(50))

\* C17 (amended): in the iterations that evaluate with getTennisData
\* (src/components/TennisIndex.tsx and both of part_005) such a reading yields
\* Extreme Temp with score 50; part_003 yields High Heat / Fair above 35 and
\* Playable / Good below 10; part_004 and part_009 have no temperature rule
\* and yield Playable / Good.
C17_ExtremeTempByVariant ==
  LET cutoff == IF tennis \in {"TennisIndex", "P005A", "P005B"} THEN U(25) ELSE U(20)
      hot == weather.temp > U(35)
  IN ( /\ card # NotRendered
       /\ ~(weather.precipitation > 0)
       /\ ~(weather.windSpeed > cutoff)
       /\ (weather.temp < U(10) \/ hot) )
       => CASE tennis \in {"TennisIndex", "P005A", "P005B"} ->
                 card.status = "Extreme Temp" /\ card.score = Some(50)
            [] tennis = "P003" ->
                 IF hot THEN card.status = "High Heat" /\ card.label = "Fair"
                 ELSE card.status = "Playable" /\ card.label = "Good"
            [] OTHER -> card.status = "Playable" /\ card.label = "Good"

C17_Witness ==
  /\ card # NotRendered
  /\ tennis = "TennisIndex"
  /\ weather.temp = U(5)
  /\ weather.windSpeed = U(25)
  /\ weather.precipitation = 0
  /\ card.status = "Extreme Temp"
  /\ card.score = Some(50)

\* C18 (as claimed): the percentage printed on the card is the fixed value
\* of the reading's tier: 20 for precipitation, 40 for wind, 50 for extreme
\* temperature, 100 for elite and 80 otherwise.
C18_SyncIsTierValue ==
  LET w == weather
      value == IF w.precipitation > 0 THEN 20
               ELSE IF w.windSpeed > U(25) THEN 40
               ELSE IF w.temp < U(10) \/ w.temp > U(35) THEN 50
               ELSE IF w.temp >= U(18) /\ w.temp <= U(24) /\ w.windSpeed < U(10) THEN 100
               ELSE 80
  IN (card # NotRendered /\ IsSome(card.sync)) => card.sync = Some(value)

\* C19: in part_001 (second) every failing fetchWeather call stores exactly
\* one status string: 'Quota Exceeded.' for a message containing '429' or, in
\* any case of letters, 'quota'; 'Key Needed.' for the missing key; 'Sync
\* failed.' for anything else; and it ends with isLoading = false and
\* isLocating = false.
C19_ErrorMapping ==
  [][variant = "P001B" =>
       /\ \A k \in 1..Len(calls), msg \in ErrMessages :
            FetchFail(k, msg) =>
              /\ error' = IF msg \in {"429 Too Many Requests", "Quota exceeded"}
                          THEN "Quota Exceeded." ELSE "Sync failed."
              /\ ~isLoading' /\ ~isLocating'
              /\ calls'[k].status = "settled"
       /\ (KeyMissing /\ StartsFetch) =>
              /\ error' = "Key Needed."
              /\ ~isLoading' /\ ~isLocating'
              /\ calls'[Len(calls')].status = "failed"]_vars

\* a call of part_001 (second) has failed on a `Quota exceeded` message
C19_Witness ==
  /\ variant = "P001B"
  /\ error = "Quota Exceeded."
  /\ ~isLoading /\ ~isLocating
  /\ \E k \in 1..Len(calls) : calls[k].status = "settled"

\* C20: the 1-second timer tick changes only currentTime (and with it the
\* derived isDaytime): the reading, error, isLoading, isLocating, isEink and
\* sources are unchanged by a tick, and a tick starts no locate and no fetch.
C20_TickFrame ==
  [][currentTime' # currentTime =>
       /\ weather' = weather
       /\ error' = error
       /\ isLoading' = isLoading
       /\ isLocating' = isLocating
       /\ isEink' = isEink
       /\ sources' = sources
       /\ locates' = locates
       /\ calls' = calls
       /\ manualSearch' = manualSearch
       /\ showSearch' = showSearch]_vars

\* a tick has moved the clock past sunset while a fetch is in flight
C20_Witness ==
  /\ weather \in UpstreamReadings
  /\ currentTime = 1380
  /\ ~isDaytime
  /\ isLoading
  /\ \E k \in 1..Len(calls) : calls[k].status = "pending"

\* C21 (as claimed): in the variants with a manual search, when a search and
\* a locate-triggered fetch are in flight together, a response of the call
\* that was started first never replaces the reading of the call that was
\* started after it.
C21_LastRequestWins ==
  [][\A k \in 1..Len(calls), data \in UpstreamReadings, g \in Groundings :
       (variant \in SearchVariants /\ FetchSucceed(k, data, g)) => shown <= k]_vars

\* C22 (as claimed): in part_001, when two fetchWeather calls that were both
\* started while no reading existed are in flight and one of them fails after
\* the other succeeded, the successful reading stays in the reading slot.
C22_StaleCheckKeepsReading ==
  [][\A k \in 1..Len(calls), msg \in ErrMessages :
       ( /\ variant \in KeyCheckVariants
         /\ FetchFail(k, msg)
         /\ calls[k].captured = null
         /\ weather \in UpstreamReadings )
         => weather' = weather]_vars

\* C23: in part_000 at most one fetchWeather call is in flight at any time;
\* isLoading is true from the initial state until the mount-time fetch has
\* settled and while a refresh is in flight, and the refresh control cannot
\* be used while isLoading is true.
C23_SingleFlight ==
  variant = "P000" =>
    /\ Cardinality({k \in 1..Len(calls) : calls[k].status = "pending"}) <= 1
    /\ ((locates = <<>> \/ \E i \in 1..Len(locates) : LocateInFlight(i)) => isLoading)
    /\ ((\E k \in 1..Len(calls) : calls[k].status = "pending") => isLoading)
    /\ (isLoading => ~ENABLED Refresh)

\* a refresh of part_000 is in flight over an earlier reading
C23_Witness ==
  /\ variant = "P000"
  /\ weather \in UpstreamReadings
  /\ isLoading
  /\ \E k \in 1..Len(calls) : calls[k].origin = 0 /\ calls[k].status = "pending"

\* C24 (as claimed): whenever geolocation succeeded, fetchWeather builds the
\* coordinate-based location query, for every latitude and longitude
\* (0 included); the place or generic query is used only when no coordinates
\* were supplied.
C24_CoordinatesUsed ==
  \A k \in 1..Len(calls) :
    LET c == calls[k]
        q == locationContext(variant, c.lat, c.lon, c.hint)
    IN c.status = "pending" =>
         /\ (IsSome(c.lat) /\ IsSome(c.lon)) =>
              q.kind = "coordinates" /\ q.lat = c.lat /\ q.lon = c.lon
         /\ q.kind # "coordinates" => (c.lat = None /\ c.lon = None)

\* C25 (as claimed): every call of fetchWeather carries a coordinate pair or
\* a non-empty place name; in particular a search form submitted with an
\* empty or whitespace-only input starts no call.
C25_DescriptorPresent ==
  [][StartsFetch =>
       LET c == calls'[Len(calls')]
       IN \/ IsSome(c.lat) /\ IsSome(c.lon)
          \/ IsSome(c.hint) /\ trim(Val(c.hint)) # <<>>]_vars

\* C26 (as claimed): in the free-text variants a response text that holds one
\* well-formed JSON object, alone or with prose before or after it (prose
\* that may contain brace characters), yields that object and the fetch
\* succeeds; only a text with no JSON object takes the failure path.
C26_ExtractionToleratesProse ==
  [][\A k \in 1..Len(calls), text \in ResponseTexts, data \in UpstreamReadings,
        g \in Groundings :
       FetchText(k, text, data, g) =>
         IF \E i \in 1..(Len(text) - 2) : SubSeq(text, i, i + 2) = <<"{", "body", "}">>
         THEN weather' = data /\ error' = error
         ELSE error' = CatchError(variant, "")]_vars

\* C27: isDaytime is true exactly when sunriseMinutes <= nowMinutes <
\* sunsetMinutes, in minutes since local midnight (the minute of the sunrise
\* is day, the minute of the sunset is night), and it is true whenever the
\* reading has no sunrise or no sunset.
C27_DaytimeWindow ==
  LET minutes(t) == CASE t = T0600 -> 360 [] t = T0615 -> 375 [] t = T0710 -> 430
                      [] t = T1820 -> 1100 [] t = T2000 -> 1200 [] t = T2030 -> 1230
      rise == weather.sunrise
      set == weather.sunset
  IN weather # null =>
       IF rise = None \/ set = None THEN isDaytime
       ELSE isDaytime <=> (minutes(rise) <= currentTime /\ currentTime < minutes(set))

\* the clock stands on the minute of the sunset, which is night
C27_Witness ==
  /\ weather # null
  /\ weather.sunrise = T0615
  /\ weather.sunset = T2030
  /\ currentTime = 1230
  /\ ~isDaytime

\* C28: in every state of the main view the condition the background theme
\* and the icon are chosen by is the condition handed to the animation layer.
C28_ThemeMatchesAnimation ==
  MainView
    => /\ iconCondition = animationCondition
       /\ (~isEink => theme = animationCondition)

\* C29: after a successful fetch the citation list is the one extracted from
\* that response, and is empty when the response carried no grounding
\* metadata.
C29_SourcesFollowResponse ==
  [][\A k \in 1..Len(calls), data \in UpstreamReadings, g \in Groundings :
       FetchSucceed(k, data, g)
         => sources' = IF IsSome(g) THEN ExtractSources(Val(g)) ELSE <<>>]_vars

\* C30: a step that flips isEink changes nothing else (reading, error,
\* isLoading, isLocating, sources, search form, clock), starts no locate and
\* no fetch, and leaves the main view, where the button can be pressed again;
\* with the other variables untouched, a second flip restores the state.
C30_ToggleFlipsOnlyEink ==
  [][isEink' # isEink
       => /\ isEink' = ~isEink
          /\ UNCHANGED <<weather, error, isLoading, isLocating, sources, manualSearch,
                         showSearch, currentTime, locates, calls>>
          /\ ~StartsFetch
          /\ ~StartsLocate
          /\ MainView']_vars

C30_Witness ==
  /\ isEink
  /\ weather \in UpstreamReadings
  /\ error # NoError
  /\ sources # <<>>
  /\ \E k \in 1..Len(calls) : calls[k].status = "pending"

====
